---- MODULE Spec2Model ----
(***************************************************************************)
(* Model of the hash-linked, proof-of-work chain of blockchain.py: Block   *)
(* (canonical serialisation and digest), Blockchain (genesis, add_block,   *)
(* mine_block, is_chain_valid) and the in-place mutations of a stored      *)
(* block that test_blockchain.py and app.py's /tamper-block perform.       *)
(*                                                                         *)
(* Strings are modelled as sequences of character codes.  A hash is a      *)
(* sequence of DigestLen hex digits (0..15); the code 16 stands for a      *)
(* character that is no hex digit.  The five hashlib digests are modelled  *)
(* by one keyed fold over the serialised block, one key per algorithm,     *)
(* with the digest width scaled down to DigestLen hex characters.          *)
(***************************************************************************)
EXTENDS Integers, Sequences, FiniteSets, TLC

VARIABLES
    chain,           \* Blockchain.chain: the list of blocks
    difficulty,      \* Blockchain.difficulty
    hash_algorithm,  \* Blockchain.hash_algorithm
    pc,              \* "idle", or "mining" while add_block is inside mine_block
    cand,            \* new_block of the add_block call in flight (None when idle)
    req,             \* the payload passed to the add_block call in flight
    ret,             \* what the last completed call returned (or wrote to a file)
    tampers,         \* number of in-place mutations of stored blocks so far
    blockchains,     \* app.py's dictionary: session id -> Blockchain (None: no entry)
    workers,         \* request threads inside /add-block (None: not in the route)
    history          \* the file in HISTORY_DIR (None: not written yet)

(* The state of the hosting layer, untouched by the methods of one Blockchain *)
host == <<blockchains, workers, history>>

vars == <<chain, difficulty, hash_algorithm, pc, cand, req, ret, tampers, host>>

---------------------------------------------------------------------------
(* Bounds of the model *)

MaxBlocks == 3
MaxTampers == 1
(* Length up to which /add-block is called on a registered chain *)
MaxHostBlocks == 2

(* Width of a digest in hex characters (64 or 128 in hashlib, scaled down) *)
DigestLen == 2

RECURSIVE Pow(_, _)
Pow(b, e) == IF e = 0 THEN 1 ELSE b * Pow(b, e - 1)

Modulus == Pow(16, DigestLen)

None == [kind |-> "none"]

---------------------------------------------------------------------------
(* Values *)

(* The tags of HashAlgorithm, and one tag outside the set *)
HashAlgorithm == {"sha256", "sha512", "sha3-256", "sha3-512", "blake2b"}
Algorithms == HashAlgorithm \cup {"md5"}

(* Difficulties below the digest width, and a negative one ("0" * -1 is ""). *)
Difficulties == (-1) .. (DigestLen - 1)
(* time.time(): two instants, so that timestamps can repeat or differ *)
Times == {0, 1}

(* Payloads: a string (by its code), or a mapping given as the sequence of *)
(* its items in insertion order (keys by their codes).  An item is         *)
(* <<key, value>>, or <<key, 0, items>> when the value is itself a         *)
(* mapping.                                                                *)
Str(c) == [kind |-> "str", str |-> c, items |-> <<>>]
Map(kv) == [kind |-> "map", str |-> 0, items |-> kv]

(* Session ids (secrets.token_hex(8), scaled down) and request threads *)
SessionIds == {1, 2}
Threads == {1, 2}

GenesisData == Str(0)
Payloads == {Str(1), Map(<<<<1, 1>>, <<2, 2>>>>)}
HackedData == Str(2)
TamperPayloads == {HackedData, Map(<<<<2, 2>>, <<1, 1>>>>)}

---------------------------------------------------------------------------
(* json.dumps(..., sort_keys=True) *)

RECURSIVE InsertItem(_, _)
InsertItem(sorted, kv) ==
    IF sorted = <<>> THEN <<kv>>
    ELSE IF kv[1] < Head(sorted)[1] THEN <<kv>> \o sorted
    ELSE <<Head(sorted)>> \o InsertItem(Tail(sorted), kv)

(* Mutant: the items are written in insertion order *)
SortKeysInsertionOrder(items) == items

RECURSIVE SortKeys(_)
SortKeys(items) ==
    IF items = <<>> THEN <<>>
    ELSE InsertItem(SortKeys(SubSeq(items, 1, Len(items) - 1)), items[Len(items)])

RECURSIVE DumpItems(_)
DumpItems(items) ==
    IF items = <<>> THEN <<>>
    ELSE <<Head(items)[1], Head(items)[2]>> \o DumpItems(Tail(items))

(* sort_keys applies to every mapping, at any depth *)
RECURSIVE DumpSorted(_)
RECURSIVE DumpSortedItems(_)
DumpSortedItems(sorted) ==
    IF sorted = <<>> THEN <<>>
    ELSE LET kv == Head(sorted) IN
         (IF Len(kv) = 2 THEN <<kv[1], kv[2]>>
          ELSE <<kv[1], 21>> \o DumpSorted(kv[3]) \o <<22>>)
             \o DumpSortedItems(Tail(sorted))

DumpSorted(items) == DumpSortedItems(SortKeys(items))

(* Tokens 20, 21, 22 stand for the quote and the two braces *)
DumpData(d) ==
    IF d.kind = "str" THEN <<20, d.str>>
    ELSE <<21>> \o DumpSorted(d.items) \o <<22>>

DumpStr(s) == <<20>> \o s

(* Mutant: the payload is left out of the hashed fields *)
BlockStringNoData(b) ==
    <<b.index>> \o <<b.nonce>> \o DumpStr(b.previous_hash) \o <<b.timestamp>>

(* Mutant: the stored hash is serialised with the other fields *)
BlockStringWithHash(b) ==
    DumpData(b.data) \o DumpStr(b.hash) \o <<b.index>> \o <<b.nonce>>
        \o DumpStr(b.previous_hash) \o <<b.timestamp>>

(* The serialised block: the five hashed fields in sorted key order *)
BlockString(b) ==
    DumpData(b.data) \o <<b.index>> \o <<b.nonce>>
        \o DumpStr(b.previous_hash) \o <<b.timestamp>>

---------------------------------------------------------------------------
(* hashlib *)

RECURSIVE ToHex(_, _)
ToHex(n, len) ==
    IF len = 0 THEN <<>>
    ELSE ToHex(n \div 16, len - 1) \o <<n % 16>>

RECURSIVE Fold(_, _)
Fold(h, bytes) ==
    IF bytes = <<>> THEN h
    ELSE Fold((h * 11 + Head(bytes) + 1) % Modulus, Tail(bytes))

HexDigest(key, bytes) == ToHex(Fold(key, bytes), DigestLen)

(* Mutant: the final else branch falls back to sha512 *)
calculate_hash_fallback_sha512(b) ==
    LET block_string == BlockString(b) IN
    IF b.hash_algorithm = "sha256" THEN HexDigest(3, block_string)
    ELSE IF b.hash_algorithm = "sha512" THEN HexDigest(5, block_string)
    ELSE IF b.hash_algorithm = "sha3-256" THEN HexDigest(7, block_string)
    ELSE IF b.hash_algorithm = "sha3-512" THEN HexDigest(11, block_string)
    ELSE IF b.hash_algorithm = "blake2b" THEN HexDigest(13, block_string)
    ELSE HexDigest(5, block_string)

(* One key per hashlib constructor; an unrecognised tag takes the final    *)
(* else branch, which is sha256 again.                                     *)
calculate_hash(b) ==
    LET block_string == BlockString(b) IN
    IF b.hash_algorithm = "sha256" THEN HexDigest(3, block_string)
    ELSE IF b.hash_algorithm = "sha512" THEN HexDigest(5, block_string)
    ELSE IF b.hash_algorithm = "sha3-256" THEN HexDigest(7, block_string)
    ELSE IF b.hash_algorithm = "sha3-512" THEN HexDigest(11, block_string)
    ELSE IF b.hash_algorithm = "blake2b" THEN HexDigest(13, block_string)
    ELSE HexDigest(3, block_string)

---------------------------------------------------------------------------
(* Block *)

(* Block.__init__: stores the fields, then computes the hash *)
Block(index, timestamp, data, previous_hash, nonce, alg) ==
    LET self == [index |-> index, timestamp |-> timestamp, data |-> data,
                 previous_hash |-> previous_hash, nonce |-> nonce,
                 hash_algorithm |-> alg, hash |-> <<>>]
    IN  [self EXCEPT !.hash = calculate_hash(self)]

(* str.startswith *)
StartsWith(s, prefix) ==
    /\ Len(prefix) <= Len(s)
    /\ SubSeq(s, 1, Len(prefix)) = prefix

(* "0" * n: the empty string when n <= 0 *)
Zeros(n) == [i \in 1 .. (IF n > 0 THEN n ELSE 0) |-> 0]

---------------------------------------------------------------------------
(* Blockchain *)

(* Mutant: the genesis block is given the empty string as previous_hash *)
create_genesis_block_empty_prev(alg, now) == Block(0, now, GenesisData, <<>>, 0, alg)

(* Blockchain.__init__ with create_genesis_block *)
create_genesis_block(alg, now) == Block(0, now, GenesisData, <<0>>, 0, alg)

(* The module-level state of app.py before any request *)
HostIdle ==
    /\ blockchains = [sid \in SessionIds |-> None]
    /\ workers = [t \in Threads |-> None]
    /\ history = None

Init ==
    /\ HostIdle
    /\ difficulty \in Difficulties
    /\ hash_algorithm \in Algorithms
    /\ \E now \in Times : chain = <<create_genesis_block(hash_algorithm, now)>>
    /\ pc = "idle"
    /\ cand = None
    /\ req = None
    /\ ret = None
    /\ tampers = 0

(* Mutant: chain[0] in place of chain[-1] *)
get_first_block == chain[1]

get_latest_block == chain[Len(chain)]

(* Mutant: the new block's index is len(chain) + 1 *)
AddBlockBeginIndexOffByOne(data, now) ==
    /\ pc = "idle"
    /\ Len(chain) < MaxBlocks
    /\ cand' = Block(Len(chain) + 1, now, data, chain[Len(chain)].hash, 0, hash_algorithm)
    /\ req' = data
    /\ pc' = "mining"
    /\ ret' = None
    /\ UNCHANGED <<chain, difficulty, hash_algorithm, tampers, host>>

(* Mutant: the nonce search starts at 1 *)
AddBlockBeginNonceOne(data, now) ==
    /\ pc = "idle"
    /\ Len(chain) < MaxBlocks
    /\ cand' = Block(Len(chain), now, data, chain[Len(chain)].hash, 1, hash_algorithm)
    /\ req' = data
    /\ pc' = "mining"
    /\ ret' = None
    /\ UNCHANGED <<chain, difficulty, hash_algorithm, tampers, host>>

(* Mutant: the new block is built with Block's default algorithm *)
AddBlockBeginDefaultAlgorithm(data, now) ==
    /\ pc = "idle"
    /\ Len(chain) < MaxBlocks
    /\ cand' = Block(Len(chain), now, data, chain[Len(chain)].hash, 0, "sha256")
    /\ req' = data
    /\ pc' = "mining"
    /\ ret' = None
    /\ UNCHANGED <<chain, difficulty, hash_algorithm, tampers, host>>

(* Mutant: the new block takes the index of the latest block *)
AddBlockBeginIndexOfLatest(data, now) ==
    /\ pc = "idle"
    /\ Len(chain) < MaxBlocks
    /\ cand' = Block(chain[Len(chain)].index, now, data, chain[Len(chain)].hash, 0,
                     hash_algorithm)
    /\ req' = data
    /\ pc' = "mining"
    /\ ret' = None
    /\ UNCHANGED <<chain, difficulty, hash_algorithm, tampers, host>>

(* add_block up to the call of mine_block: the candidate is constructed *)
AddBlockBegin(data, now) ==
    /\ pc = "idle"
    /\ Len(chain) < MaxBlocks
    /\ LET previous_block == get_latest_block IN
       cand' = Block(Len(chain), now, data, previous_block.hash, 0, hash_algorithm)
    /\ req' = data
    /\ pc' = "mining"
    /\ ret' = None
    /\ UNCHANGED <<chain, difficulty, hash_algorithm, tampers, host>>

(* Mutant: the target is one zero short *)
MiningDoneShortTarget(block) == StartsWith(block.hash, Zeros(difficulty - 1))

(* Mutant: the hash is recomputed before the nonce is incremented *)
NextNonceStaleHash(block) ==
    [block EXCEPT !.nonce = block.nonce + 1, !.hash = calculate_hash(block)]

(* Mutant: the nonce is incremented by two *)
NextNonceSkip(block) ==
    LET bumped == [block EXCEPT !.nonce = block.nonce + 2]
    IN  [bumped EXCEPT !.hash = calculate_hash(bumped)]

(* Mutant: the loop body recomputes the hash without incrementing the nonce *)
NextNonceStuck(block) == [block EXCEPT !.hash = calculate_hash(block)]

(* Mutant: the loop body takes a new timestamp with every nonce *)
NextNonceRestamped(block) ==
    LET bumped == [block EXCEPT !.nonce = block.nonce + 1, !.timestamp = 1]
    IN  [bumped EXCEPT !.hash = calculate_hash(bumped)]

(* Mutant: the target is one zero too long *)
MiningDoneLongTarget(block) == StartsWith(block.hash, Zeros(difficulty + 1))

(* mine_block: the loop test and one pass through the loop body *)
MiningDone(block) == StartsWith(block.hash, Zeros(difficulty))

NextNonce(block) ==
    LET bumped == [block EXCEPT !.nonce = block.nonce + 1]
    IN  [bumped EXCEPT !.hash = calculate_hash(bumped)]

MineStep ==
    /\ pc = "mining"
    /\ ~MiningDone(cand)
    /\ cand.nonce < Modulus
    /\ cand' = NextNonce(cand)
    /\ UNCHANGED <<chain, difficulty, hash_algorithm, pc, req, ret, tampers, host>>

(* Mutant: the block is appended without waiting for the loop to exit *)
AddBlockEndEarly ==
    /\ pc = "mining"
    /\ chain' = Append(chain, cand)
    /\ ret' = [kind |-> "add_block", block |-> cand]
    /\ pc' = "idle"
    /\ cand' = None
    /\ req' = None
    /\ UNCHANGED <<difficulty, hash_algorithm, tampers, host>>

(* Mutant: the mined block is inserted at the front of the list *)
AddBlockEndPrepend ==
    /\ pc = "mining"
    /\ MiningDone(cand)
    /\ chain' = <<cand>> \o chain
    /\ ret' = [kind |-> "add_block", block |-> cand]
    /\ pc' = "idle"
    /\ cand' = None
    /\ req' = None
    /\ UNCHANGED <<difficulty, hash_algorithm, tampers, host>>

(* add_block after mine_block has returned: append and return new_block *)
AddBlockEnd ==
    /\ pc = "mining"
    /\ MiningDone(cand)
    /\ chain' = Append(chain, cand)
    /\ ret' = [kind |-> "add_block", block |-> cand]
    /\ pc' = "idle"
    /\ cand' = None
    /\ req' = None
    /\ UNCHANGED <<difficulty, hash_algorithm, tampers, host>>

(* is_chain_valid: the loop over positions 1 .. len-1 (Python positions;   *)
(* position i is chain[i + 1] here).  The result carries the return value  *)
(* and what the method prints: the first failing block and which check     *)
(* failed (1 hash, 2 previous hash, 3 difficulty; 0 when none did).        *)
Verdict(ok, index, check) ==
    [kind |-> "is_chain_valid", ok |-> ok, index |-> index, check |-> check]

(* Mutant: check 1 (stored hash against recomputed hash) is missing *)
RECURSIVE ValidFromNoHashCheck(_, _, _)
ValidFromNoHashCheck(blocks, diff, i) ==
    IF i >= Len(blocks) THEN Verdict(TRUE, 0, 0)
    ELSE IF blocks[i + 1].previous_hash # blocks[i].hash THEN Verdict(FALSE, i, 2)
    ELSE IF ~StartsWith(blocks[i + 1].hash, Zeros(diff)) THEN Verdict(FALSE, i, 3)
    ELSE ValidFromNoHashCheck(blocks, diff, i + 1)

(* Mutant: check 2 (previous_hash against the predecessor) is missing *)
RECURSIVE ValidFromNoLinkCheck(_, _, _)
ValidFromNoLinkCheck(blocks, diff, i) ==
    IF i >= Len(blocks) THEN Verdict(TRUE, 0, 0)
    ELSE IF blocks[i + 1].hash # calculate_hash(blocks[i + 1]) THEN Verdict(FALSE, i, 1)
    ELSE IF ~StartsWith(blocks[i + 1].hash, Zeros(diff)) THEN Verdict(FALSE, i, 3)
    ELSE ValidFromNoLinkCheck(blocks, diff, i + 1)

(* Mutant: check 2 is made before check 1 *)
RECURSIVE ValidFromLinkFirst(_, _, _)
ValidFromLinkFirst(blocks, diff, i) ==
    IF i >= Len(blocks) THEN Verdict(TRUE, 0, 0)
    ELSE IF blocks[i + 1].previous_hash # blocks[i].hash THEN Verdict(FALSE, i, 2)
    ELSE IF blocks[i + 1].hash # calculate_hash(blocks[i + 1]) THEN Verdict(FALSE, i, 1)
    ELSE IF ~StartsWith(blocks[i + 1].hash, Zeros(diff)) THEN Verdict(FALSE, i, 3)
    ELSE ValidFromLinkFirst(blocks, diff, i + 1)

RECURSIVE ValidFrom(_, _, _)
ValidFrom(blocks, diff, i) ==
    IF i >= Len(blocks) THEN Verdict(TRUE, 0, 0)
    ELSE LET current_block == blocks[i + 1]
             previous_block == blocks[i]
         IN  IF current_block.hash # calculate_hash(current_block)
                 THEN Verdict(FALSE, i, 1)
             ELSE IF current_block.previous_hash # previous_block.hash
                 THEN Verdict(FALSE, i, 2)
             ELSE IF ~StartsWith(current_block.hash, Zeros(diff))
                 THEN Verdict(FALSE, i, 3)
             ELSE ValidFrom(blocks, diff, i + 1)

(* Mutant: only the latest block is checked *)
is_chain_valid_latest_only(blocks, diff) ==
    IF Len(blocks) < 2 THEN Verdict(TRUE, 0, 0)
    ELSE ValidFrom(blocks, diff, Len(blocks) - 1)

(* Mutant: the target of check 3 is one zero too long *)
is_chain_valid_long_target(blocks, diff) == ValidFrom(blocks, diff + 1, 1)

is_chain_valid(blocks, diff) == ValidFrom(blocks, diff, 1)

(* Mutant: validation rewrites every stored hash with the recomputed one *)
ValidateRepairs ==
    /\ pc = "idle"
    /\ ret' = is_chain_valid(chain, difficulty)
    /\ chain' = [i \in 1 .. Len(chain) |->
                    [chain[i] EXCEPT !.hash = calculate_hash(chain[i])]]
    /\ UNCHANGED <<difficulty, hash_algorithm, pc, cand, req, tampers, host>>

Validate ==
    /\ pc = "idle"
    /\ ret' = is_chain_valid(chain, difficulty)
    /\ UNCHANGED <<chain, difficulty, hash_algorithm, pc, cand, req, tampers, host>>

Next ==
    \/ \E data \in Payloads, now \in Times : AddBlockBegin(data, now)
    \/ MineStep
    \/ AddBlockEnd
    \/ Validate

Spec == Init /\ [][Next]_vars

(* The thread inside add_block keeps running: the loop of mine_block takes *)
(* its next pass, and the call goes on to the append when the loop exits   *)
SpecLive == Spec /\ WF_vars(MineStep) /\ WF_vars(AddBlockEnd)

---------------------------------------------------------------------------
(* In-place mutation of a stored block, outside add_block *)

(* chain[i].data = data, the hash left as it is *)
TamperData(i, data) ==
    /\ pc = "idle"
    /\ tampers < MaxTampers
    /\ i < Len(chain)
    /\ chain' = [chain EXCEPT ![i + 1].data = data]
    /\ tampers' = tampers + 1
    /\ ret' = None
    /\ UNCHANGED <<difficulty, hash_algorithm, pc, cand, req, host>>

(* Values written over a stored hash: a string that is no hex digest, a    *)
(* string of zeros, and the digest recomputed from the block's fields.     *)
FakeHash(block, which) ==
    IF which = "fake_hash" THEN <<16, 16>>
    ELSE IF which = "zeros" THEN Zeros(DigestLen)
    ELSE calculate_hash(block)

FakeKinds == {"fake_hash", "zeros", "recomputed"}

(* chain[i].hash = h, the other fields left as they are *)
TamperHash(i, which) ==
    /\ pc = "idle"
    /\ tampers < MaxTampers
    /\ i < Len(chain)
    /\ chain' = [chain EXCEPT ![i + 1].hash = FakeHash(chain[i + 1], which)]
    /\ tampers' = tampers + 1
    /\ ret' = None
    /\ UNCHANGED <<difficulty, hash_algorithm, pc, cand, req, host>>

(* mine_block as a whole: the loop run to its exit *)
RECURSIVE mine_block(_)
mine_block(block) ==
    IF MiningDone(block) \/ block.nonce >= Modulus THEN block
    ELSE mine_block(NextNonce(block))

NextTamper ==
    \/ Next
    \/ \E i \in 0 .. MaxBlocks - 1, data \in TamperPayloads : TamperData(i, data)
    \/ \E i \in 0 .. MaxBlocks - 1, which \in FakeKinds : TamperHash(i, which)

SpecTamper == Init /\ [][NextTamper]_vars

---------------------------------------------------------------------------
(* Chains rebuilt from stored records (app.py, load_blockchain): every     *)
(* block is constructed from the record's fields and then given the        *)
(* record's hash, whatever it is.                                          *)

(* Mutant: the hash computed by Block.__init__ is kept *)
LoadBlockRehash(record) ==
    Block(record.index, record.timestamp, record.data,
          record.previous_hash, record.nonce, record.hash_algorithm)

LoadBlock(record) ==
    LET block == Block(record.index, record.timestamp, record.data,
                       record.previous_hash, record.nonce, record.hash_algorithm)
    IN  [block EXCEPT !.hash = record.hash]

RECURSIVE LoadChain(_)
LoadChain(records) ==
    IF records = <<>> THEN <<>>
    ELSE Append(LoadChain(SubSeq(records, 1, Len(records) - 1)),
                LoadBlock(records[Len(records)]))

(* The records a file may hold at position index, after a record whose     *)
(* hash is prev: the block as add_block would have made it, or with        *)
(* another previous_hash, an unmined nonce or another hash.                *)
StoredHashes(block) == {block.hash, Zeros(DigestLen), <<16, 16>>}

Records(index, datas, prevs) ==
    UNION {LET built == Block(index, 0, data, prev, 0, hash_algorithm)
               blocks == IF index = 0 THEN {built} ELSE {built, mine_block(built)}
           IN  UNION {{[block EXCEPT !.hash = h] : h \in StoredHashes(block)}
                         : block \in blocks}
             : data \in datas, prev \in prevs}

RECURSIVE StoredChains(_)
StoredChains(n) ==
    IF n = 1 THEN {<<r>> : r \in Records(0, {GenesisData}, {<<0>>})}
    ELSE UNION {{Append(c, r) :
                    r \in Records(n - 1, {Str(1)}, {c[n - 1].hash, <<16, 16>>})}
                  : c \in StoredChains(n - 1)}

InitLoaded ==
    /\ HostIdle
    /\ difficulty \in Difficulties
    /\ hash_algorithm \in Algorithms
    /\ \E n \in 1 .. MaxBlocks : \E records \in StoredChains(n) :
          chain = LoadChain(records)
    /\ pc = "idle"
    /\ cand = None
    /\ req = None
    /\ ret = None
    /\ tampers = 0

NextLoaded == Validate

SpecLoaded == InitLoaded /\ [][NextLoaded]_vars

---------------------------------------------------------------------------
(* The operations of app.py on one registered chain: /add-block,           *)
(* /validate-chain, /tamper-block, get_chain_info, /save-blockchain and    *)
(* /load-blockchain, together with an add_block whose payload json.dumps   *)
(* cannot serialise.                                                       *)

(* A payload that json.dumps rejects with TypeError (a set, an object) *)
Unserializable == [kind |-> "obj", str |-> 0, items |-> <<>>]

Serializable(d) == d.kind \in {"str", "map"}

Error(name) == [kind |-> "error", error |-> name]

(* Mutant: the block is appended before its hash is computed *)
AddBlockRaiseAfterAppend(data, now) ==
    /\ pc = "idle"
    /\ ~Serializable(data)
    /\ chain' = Append(chain, [index |-> Len(chain), timestamp |-> now,
                               data |-> data, previous_hash |-> chain[Len(chain)].hash,
                               nonce |-> 0, hash_algorithm |-> hash_algorithm,
                               hash |-> <<>>])
    /\ ret' = Error("TypeError")
    /\ UNCHANGED <<difficulty, hash_algorithm, pc, cand, req, tampers, host>>

(* add_block with a payload json.dumps rejects: Block.__init__ raises from *)
(* calculate_hash, before mine_block and before chain.append               *)
AddBlockRaise(data, now) ==
    /\ pc = "idle"
    /\ ~Serializable(data)
    /\ ret' = Error("TypeError")
    /\ UNCHANGED <<chain, difficulty, hash_algorithm, pc, cand, req, tampers, host>>

(* Mutant: the latest hash is read from chain[0] *)
get_chain_info_latest_first(blocks, diff, alg) ==
    [kind |-> "chain_info", length |-> Len(blocks), difficulty |-> diff,
     hash_algorithm |-> alg, latest_block_hash |-> blocks[1].hash,
     genesis_block_hash |-> blocks[1].hash]

get_chain_info(blocks, diff, alg) ==
    [kind |-> "chain_info", length |-> Len(blocks), difficulty |-> diff,
     hash_algorithm |-> alg, latest_block_hash |-> blocks[Len(blocks)].hash,
     genesis_block_hash |-> blocks[1].hash]

GetChainInfo ==
    /\ pc = "idle"
    /\ ret' = get_chain_info(chain, difficulty, hash_algorithm)
    /\ UNCHANGED <<chain, difficulty, hash_algorithm, pc, cand, req, tampers, host>>

(* strftime('%Y-%m-%d %H:%M:%S') keeps whole seconds: the instants of      *)
(* Times are half a second apart.                                          *)
strftime(timestamp) == timestamp \div 2

(* Mutant: the timestamp is exported in whole seconds *)
to_dict_whole_seconds(b) ==
    [index |-> b.index, timestamp |-> 2 * strftime(b.timestamp),
     datetime |-> strftime(b.timestamp), data |-> b.data,
     previous_hash |-> b.previous_hash, nonce |-> b.nonce, hash |-> b.hash,
     hash_algorithm |-> b.hash_algorithm]

to_dict(b) ==
    [index |-> b.index, timestamp |-> b.timestamp,
     datetime |-> strftime(b.timestamp), data |-> b.data,
     previous_hash |-> b.previous_hash, nonce |-> b.nonce, hash |-> b.hash,
     hash_algorithm |-> b.hash_algorithm]

(* json.dump without sort_keys, and json.load: a mapping is written and    *)
(* read back in insertion order.                                           *)
JsonDump(d) ==
    IF d.kind = "str" THEN <<20, d.str>>
    ELSE <<21>> \o DumpItems(d.items) \o <<22>>

RECURSIVE LoadItems(_)
LoadItems(tokens) ==
    IF Len(tokens) < 2 THEN <<>>
    ELSE <<<<tokens[1], tokens[2]>>>> \o LoadItems(SubSeq(tokens, 3, Len(tokens)))

JsonLoad(tokens) ==
    IF tokens[1] = 20 THEN Str(tokens[2])
    ELSE Map(LoadItems(SubSeq(tokens, 2, Len(tokens) - 1)))

(* save_data of save_blockchain, and the file json.dump writes from it *)
SaveData(blocks, diff, alg) ==
    [difficulty |-> diff, hash_algorithm |-> alg,
     chain |-> [i \in 1 .. Len(blocks) |-> to_dict(blocks[i])]]

json_dump(save_data) ==
    [save_data EXCEPT !.chain =
        [i \in 1 .. Len(save_data.chain) |->
            [save_data.chain[i] EXCEPT !.data = JsonDump(save_data.chain[i].data)]]]

json_load(file) ==
    [file EXCEPT !.chain =
        [i \in 1 .. Len(file.chain) |->
            [file.chain[i] EXCEPT !.data = JsonLoad(file.chain[i].data)]]]

(* /save-blockchain: the result carries the file that was written *)
SaveBlockchain ==
    /\ pc = "idle"
    /\ ret' = [kind |-> "save",
               file |-> json_dump(SaveData(chain, difficulty, hash_algorithm))]
    /\ UNCHANGED <<chain, difficulty, hash_algorithm, pc, cand, req, tampers, host>>

(* /load-blockchain of the file just written: a new Blockchain with the    *)
(* file's configuration, its chain emptied and refilled from the records;  *)
(* the result carries the new object (registered under a new session id)   *)
(* and its chain_info.                                                     *)
LoadBlockchain ==
    /\ pc = "idle"
    /\ ret.kind = "save"
    /\ LET saved_data == json_load(ret.file)
           blockchain == [chain |-> LoadChain(saved_data.chain),
                          difficulty |-> saved_data.difficulty,
                          hash_algorithm |-> saved_data.hash_algorithm]
       IN  ret' = [kind |-> "load", blockchain |-> blockchain,
                   chain_info |-> get_chain_info(blockchain.chain,
                                                 blockchain.difficulty,
                                                 blockchain.hash_algorithm)]
    /\ UNCHANGED <<chain, difficulty, hash_algorithm, pc, cand, req, tampers, host>>

NextApp ==
    \/ Next
    \/ \E now \in Times : AddBlockRaise(Unserializable, now)
    \/ \E i \in 0 .. MaxBlocks - 1 : TamperData(i, HackedData)
    \/ GetChainInfo
    \/ SaveBlockchain
    \/ LoadBlockchain

SpecApp == Init /\ [][NextApp]_vars

---------------------------------------------------------------------------
(* The hosting layer of app.py: the dictionary blockchains and the routes  *)
(* that look a chain up by session id.  Requests run on threads; the only  *)
(* route that stays long in a Blockchain method is /add-block, which is    *)
(* modelled in two steps: the lookup with the construction of the block,   *)
(* and the mining with the append.  The variables of the single Blockchain *)
(* above stay as Init leaves them.                                         *)

HostDifficulties == {1}
HostAlgorithms == {"sha256"}

(* A registered Blockchain object *)
Registered(blocks, diff, alg) ==
    [chain |-> blocks, difficulty |-> diff, hash_algorithm |-> alg]

(* secrets.token_hex(8) returns an id that no entry of the dictionary and  *)
(* no request in flight refers to                                          *)
FreshId(sid) ==
    /\ blockchains[sid] = None
    /\ \A t \in Threads :
          IF workers[t] = None THEN TRUE ELSE workers[t].session_id # sid

Response(route, sid) == [kind |-> route, session_id |-> sid]

(* mine_block on a block of a registered chain: the loop run to its exit *)
RECURSIVE mine_block_at(_, _)
mine_block_at(block, diff) ==
    IF StartsWith(block.hash, Zeros(diff)) \/ block.nonce >= Modulus THEN block
    ELSE mine_block_at(NextNonce(block), diff)

(* /create-blockchain: the session id is drawn at random *)
CreateBlockchain(sid, diff, alg, now) ==
    /\ FreshId(sid)
    /\ blockchains' = [blockchains EXCEPT ![sid] =
          Registered(<<create_genesis_block(alg, now)>>, diff, alg)]
    /\ ret' = Response("create_blockchain", sid)
    /\ UNCHANGED <<chain, difficulty, hash_algorithm, pc, cand, req, tampers,
                   workers, history>>

(* /add-block up to the call of mine_block: the Blockchain is looked up    *)
(* and the new block is built on its latest block                          *)
HostAddBlockBegin(t, sid, data, now) ==
    /\ workers[t] = None
    /\ blockchains[sid] # None
    /\ Len(blockchains[sid].chain) < MaxHostBlocks
    /\ LET blockchain == blockchains[sid]
           previous_block == blockchain.chain[Len(blockchain.chain)]
       IN  workers' = [workers EXCEPT ![t] =
              [session_id |-> sid,
               difficulty |-> blockchain.difficulty,
               new_block |-> Block(Len(blockchain.chain), now, data,
                                   previous_block.hash, 0,
                                   blockchain.hash_algorithm)]]
    /\ UNCHANGED <<chain, difficulty, hash_algorithm, pc, cand, req, ret, tampers,
                   blockchains, history>>

(* /add-block from mine_block to the response: the mined block is appended *)
(* to the object the thread looked up; when /reset-blockchain has deleted  *)
(* the entry meanwhile, the object is in no entry any more                 *)
HostAddBlockEnd(t) ==
    /\ workers[t] # None
    /\ LET w == workers[t]
           mined == mine_block_at(w.new_block, w.difficulty)
           entry == blockchains[w.session_id]
       IN  /\ blockchains' =
                IF entry # None
                THEN [blockchains EXCEPT ![w.session_id].chain = Append(@, mined)]
                ELSE blockchains
           /\ ret' = Response("add_block", w.session_id)
    /\ workers' = [workers EXCEPT ![t] = None]
    /\ UNCHANGED <<chain, difficulty, hash_algorithm, pc, cand, req, tampers, history>>

(* /validate-chain/<session_id> *)
HostValidateChain(sid) ==
    /\ blockchains[sid] # None
    /\ ret' = [kind |-> "validate_chain", session_id |-> sid,
               is_valid |-> is_chain_valid(blockchains[sid].chain,
                                           blockchains[sid].difficulty).ok]
    /\ UNCHANGED <<chain, difficulty, hash_algorithm, pc, cand, req, tampers, host>>

(* chain[block_index] of a Python list: a negative index counts from the end *)
ListPosition(blocks, block_index) ==
    IF block_index < 0 THEN Len(blocks) + block_index + 1 ELSE block_index + 1

(* The block indexes a request may carry *)
BlockIndexes == (-1) .. MaxHostBlocks

(* Mutant: the hash of the overwritten block is recomputed *)
HostTamperBlockRehash(sid, block_index) ==
    /\ tampers < MaxTampers
    /\ blockchains[sid] # None
    /\ block_index < Len(blockchains[sid].chain)
    /\ ListPosition(blockchains[sid].chain, block_index) >= 1
    /\ LET i == ListPosition(blockchains[sid].chain, block_index)
           written == [blockchains[sid].chain[i] EXCEPT !.data = HackedData]
           tampered == [blockchains[sid].chain EXCEPT
                           ![i] = [written EXCEPT !.hash = calculate_hash(written)]]
           is_valid == is_chain_valid(tampered, blockchains[sid].difficulty).ok
       IN  /\ blockchains' = [blockchains EXCEPT ![sid].chain = tampered]
           /\ ret' = [kind |-> "tamper_block", session_id |-> sid,
                      tampered_detected |-> ~is_valid]
    /\ tampers' = tampers + 1
    /\ UNCHANGED <<chain, difficulty, hash_algorithm, pc, cand, req, workers, history>>

(* /tamper-block: the payload is overwritten, then the chain is validated *)
HostTamperBlock(sid, block_index) ==
    /\ tampers < MaxTampers
    /\ blockchains[sid] # None
    /\ block_index < Len(blockchains[sid].chain)
    /\ ListPosition(blockchains[sid].chain, block_index) >= 1
    /\ LET i == ListPosition(blockchains[sid].chain, block_index)
           tampered == [blockchains[sid].chain EXCEPT ![i].data = HackedData]
           is_valid == is_chain_valid(tampered, blockchains[sid].difficulty).ok
       IN  /\ blockchains' = [blockchains EXCEPT ![sid].chain = tampered]
           /\ ret' = [kind |-> "tamper_block", session_id |-> sid,
                      tampered_detected |-> ~is_valid]
    /\ tampers' = tampers + 1
    /\ UNCHANGED <<chain, difficulty, hash_algorithm, pc, cand, req, workers, history>>

(* /tamper-block with a block_index at or beyond the length of the chain:  *)
(* the only index test of the route answers 400 before anything is written *)
RangeError(sid) ==
    [kind |-> "error", session_id |-> sid, error |-> "Block index out of range"]

HostTamperBlockRejected(sid, block_index) ==
    /\ blockchains[sid] # None
    /\ block_index >= Len(blockchains[sid].chain)
    /\ ret' = RangeError(sid)
    /\ UNCHANGED <<chain, difficulty, hash_algorithm, pc, cand, req, tampers, host>>

(* /tamper-block with a block_index below -len(chain): chain[block_index]  *)
(* raises IndexError, which the route's except clause turns into a 400     *)
(* response carrying str(e)                                                *)
IndexError(sid) ==
    [kind |-> "error", session_id |-> sid, error |-> "list index out of range"]

HostTamperBlockIndexError(sid, block_index) ==
    /\ blockchains[sid] # None
    /\ block_index < Len(blockchains[sid].chain)
    /\ ListPosition(blockchains[sid].chain, block_index) < 1
    /\ ret' = IndexError(sid)
    /\ UNCHANGED <<chain, difficulty, hash_algorithm, pc, cand, req, tampers, host>>

(* /save-blockchain *)
HostSaveBlockchain(sid) ==
    /\ blockchains[sid] # None
    /\ history' = json_dump(SaveData(blockchains[sid].chain,
                                     blockchains[sid].difficulty,
                                     blockchains[sid].hash_algorithm))
    /\ ret' = Response("save_blockchain", sid)
    /\ UNCHANGED <<chain, difficulty, hash_algorithm, pc, cand, req, tampers,
                   blockchains, workers>>

(* /load-blockchain: a new object under a session id drawn at random *)
HostLoadBlockchain(sid) ==
    /\ history # None
    /\ FreshId(sid)
    /\ LET saved_data == json_load(history)
       IN  blockchains' = [blockchains EXCEPT ![sid] =
              Registered(LoadChain(saved_data.chain),
                         saved_data.difficulty, saved_data.hash_algorithm)]
    /\ ret' = Response("load_blockchain", sid)
    /\ UNCHANGED <<chain, difficulty, hash_algorithm, pc, cand, req, tampers,
                   workers, history>>

(* Mutant: the whole dictionary is cleared *)
ResetBlockchainClear(sid) ==
    /\ blockchains' = [s \in SessionIds |-> None]
    /\ ret' = Response("reset_blockchain", sid)
    /\ UNCHANGED <<chain, difficulty, hash_algorithm, pc, cand, req, tampers,
                   workers, history>>

(* /reset-blockchain: the entry is deleted if there is one *)
ResetBlockchain(sid) ==
    /\ blockchains' = [blockchains EXCEPT ![sid] = None]
    /\ ret' = Response("reset_blockchain", sid)
    /\ UNCHANGED <<chain, difficulty, hash_algorithm, pc, cand, req, tampers,
                   workers, history>>

InitHost ==
    /\ HostIdle
    /\ chain = <<>>
    /\ difficulty = 0
    /\ hash_algorithm = "sha256"
    /\ pc = "idle"
    /\ cand = None
    /\ req = None
    /\ ret = None
    /\ tampers = 0

NextHost ==
    \/ \E sid \in SessionIds, diff \in HostDifficulties, alg \in HostAlgorithms :
          CreateBlockchain(sid, diff, alg, 0)
    \/ \E t \in Threads, sid \in SessionIds : HostAddBlockBegin(t, sid, Str(1), 0)
    \/ \E t \in Threads : HostAddBlockEnd(t)
    \/ \E sid \in SessionIds : HostValidateChain(sid)
    \/ \E sid \in SessionIds, block_index \in BlockIndexes :
          HostTamperBlock(sid, block_index)
    \/ \E sid \in SessionIds : HostSaveBlockchain(sid)
    \/ \E sid \in SessionIds : HostLoadBlockchain(sid)
    \/ \E sid \in SessionIds : ResetBlockchain(sid)

SpecHost == InitHost /\ [][NextHost]_vars

---------------------------------------------------------------------------
(* The /tamper-block route with every block_index a request may carry,     *)
(* next to /create-blockchain, /add-block (two threads) and                *)
(* /validate-chain                                                         *)

RequestIndexes == (-(MaxHostBlocks + 2)) .. (MaxHostBlocks + 2)

NextTamperRoute ==
    \/ \E sid \in SessionIds, diff \in HostDifficulties, alg \in HostAlgorithms :
          CreateBlockchain(sid, diff, alg, 0)
    \/ \E t \in Threads, sid \in SessionIds : HostAddBlockBegin(t, sid, Str(1), 0)
    \/ \E t \in Threads : HostAddBlockEnd(t)
    \/ \E sid \in SessionIds : HostValidateChain(sid)
    \/ \E sid \in SessionIds, block_index \in RequestIndexes :
          HostTamperBlock(sid, block_index)
    \/ \E sid \in SessionIds, block_index \in RequestIndexes :
          HostTamperBlockRejected(sid, block_index)
    \/ \E sid \in SessionIds, block_index \in RequestIndexes :
          HostTamperBlockIndexError(sid, block_index)

SpecTamperRoute == InitHost /\ [][NextTamperRoute]_vars

---------------------------------------------------------------------------
(* demonstrate_tampering(blockchain): on a chain of three blocks or more   *)
(* it keeps the data and the hash of chain[1], validates, overwrites the   *)
(* data, validates again and writes the kept data and hash back; on a      *)
(* shorter chain it returns at once.  The result records what it prints:   *)
(* how many validations it ran and what they returned.                     *)

(* "HACKED DATA - This has been modified!" *)
DemoData == Str(3)

Demonstrated(results) ==
    [kind |-> "demonstrate_tampering", validations |-> Len(results),
     results |-> results]

(* Mutant: the kept data and hash are not written back *)
DemonstrateTamperingNoRestore ==
    /\ pc = "idle"
    /\ IF Len(chain) < 3
       THEN /\ chain' = chain
            /\ ret' = Demonstrated(<<>>)
       ELSE LET is_valid_before == is_chain_valid(chain, difficulty).ok
                tampered == [chain EXCEPT ![2].data = DemoData]
                is_valid_after == is_chain_valid(tampered, difficulty).ok
            IN  /\ chain' = tampered
                /\ ret' = Demonstrated(<<is_valid_before, is_valid_after>>)
    /\ UNCHANGED <<difficulty, hash_algorithm, pc, cand, req, tampers, host>>

DemonstrateTampering ==
    /\ pc = "idle"
    /\ IF Len(chain) < 3
       THEN /\ chain' = chain
            /\ ret' = Demonstrated(<<>>)
       ELSE LET original_data == chain[2].data
                original_hash == chain[2].hash
                is_valid_before == is_chain_valid(chain, difficulty).ok
                tampered == [chain EXCEPT ![2].data = DemoData]
                is_valid_after == is_chain_valid(tampered, difficulty).ok
                restored == [tampered EXCEPT ![2].data = original_data,
                                             ![2].hash = original_hash]
            IN  /\ chain' = restored
                /\ ret' = Demonstrated(<<is_valid_before, is_valid_after>>)
    /\ UNCHANGED <<difficulty, hash_algorithm, pc, cand, req, tampers, host>>

NextDemo ==
    \/ Next
    \/ \E i \in 0 .. MaxBlocks - 1 : TamperData(i, HackedData)
    \/ DemonstrateTampering

SpecDemo == Init /\ [][NextDemo]_vars

---------------------------------------------------------------------------
(* /load-blockchain with every outcome of the route.  The file named by    *)
(* the request is the one /save-blockchain wrote, no file at all, or a     *)
(* file that came into HISTORY_DIR otherwise: one whose list of blocks is  *)
(* empty, or one holding a record without the keys the route reads.        *)

EmptyFile == [difficulty |-> 1, hash_algorithm |-> "sha256", chain |-> <<>>]
MalformedFile ==
    [difficulty |-> 1, hash_algorithm |-> "sha256", chain |-> <<[index |-> 0]>>]

(* block_data['index'] ... block_data['hash']: a missing key raises KeyError *)
RecordKeys == {"index", "timestamp", "data", "previous_hash", "nonce", "hash"}

Readable(file) ==
    \A i \in 1 .. Len(file.chain) : RecordKeys \subseteq DOMAIN file.chain[i]

(* The files a request may name: the one /save-blockchain writes (absent   *)
(* until then) and the two others                                          *)
Filenames == {"saved", "empty", "malformed"}

ReadFile(filename) ==
    IF filename = "saved" THEN history
    ELSE IF filename = "empty" THEN EmptyFile
    ELSE MalformedFile

(* The route as a whole: the file test, the loop over the records, the     *)
(* assignment to blockchains[session_id], and the response, for which      *)
(* get_chain_info reads chain[-1] and chain[0]                             *)
LoadBlockchainRoute(sid, filename) ==
    /\ IF ReadFile(filename) = None
       THEN /\ ret' = Error("File not found")
            /\ blockchains' = blockchains
       ELSE IF ~Readable(ReadFile(filename))
       THEN /\ ret' = Error("KeyError")
            /\ blockchains' = blockchains
       ELSE LET saved_data == json_load(ReadFile(filename))
                blockchain == Registered(LoadChain(saved_data.chain),
                                         saved_data.difficulty,
                                         saved_data.hash_algorithm)
            IN  /\ FreshId(sid)
                /\ blockchains' = [blockchains EXCEPT ![sid] = blockchain]
                /\ ret' = IF blockchain.chain = <<>>
                          THEN Error("list index out of range")
                          ELSE Response("load_blockchain", sid)
    /\ UNCHANGED <<chain, difficulty, hash_algorithm, pc, cand, req, tampers,
                   workers, history>>

NextHistory ==
    \/ \E sid \in SessionIds, diff \in HostDifficulties, alg \in HostAlgorithms,
          now \in Times : CreateBlockchain(sid, diff, alg, now)
    \/ \E sid \in SessionIds, block_index \in BlockIndexes :
          HostTamperBlock(sid, block_index)
    \/ \E sid \in SessionIds : HostSaveBlockchain(sid)
    \/ \E sid \in SessionIds, filename \in Filenames :
          LoadBlockchainRoute(sid, filename)
    \/ \E sid \in SessionIds : ResetBlockchain(sid)

SpecHistory == InitHost /\ [][NextHistory]_vars

---------------------------------------------------------------------------
(* A caller that holds the dictionary returned by Block.to_dict and writes *)
(* to it.  The dictionary is a new object, but its "data" entry is the     *)
(* very object the block holds (to_dict stores self.data, not a copy):     *)
(* aliased records that, until the entry is rebound.                       *)

(* d[key] = value on a mapping: the value of an existing key is replaced,  *)
(* a new key goes last                                                     *)
RECURSIVE SetItem(_, _, _)
SetItem(items, key, value) ==
    IF items = <<>> THEN <<<<key, value>>>>
    ELSE IF Head(items)[1] = key THEN <<<<key, value>>>> \o Tail(items)
    ELSE <<Head(items)>> \o SetItem(Tail(items), key, value)

(* block.to_dict() on chain[i] *)
ToDict(i) ==
    /\ pc = "idle"
    /\ i < Len(chain)
    /\ ret' = [kind |-> "to_dict", index |-> i, aliased |-> TRUE,
               record |-> to_dict(chain[i + 1])]
    /\ UNCHANGED <<chain, difficulty, hash_algorithm, pc, cand, req, tampers, host>>

(* record["nonce"] = n, or record["data"] = value: an entry of the         *)
(* dictionary is rebound                                                   *)
RebindRecordEntry(field) ==
    /\ ret.kind = "to_dict"
    /\ \/ field = "nonce" /\ ret' = [ret EXCEPT !.record.nonce = Modulus]
       \/ field = "data" /\ ret' = [ret EXCEPT !.record.data = HackedData,
                                               !.aliased = FALSE]
    /\ UNCHANGED <<chain, difficulty, hash_algorithm, pc, cand, req, tampers, host>>

(* record["data"][key] = value: the mapping reached through the entry is   *)
(* written in place; while the entry is the block's own object, the block  *)
(* sees the write                                                          *)
MutateRecordData(key, value) ==
    /\ ret.kind = "to_dict"
    /\ ret.record.data.kind = "map"
    /\ LET written == Map(SetItem(ret.record.data.items, key, value))
       IN  /\ ret' = [ret EXCEPT !.record.data = written]
           /\ chain' = IF ret.aliased
                       THEN [chain EXCEPT ![ret.index + 1].data = written]
                       ELSE chain
    /\ UNCHANGED <<difficulty, hash_algorithm, pc, cand, req, tampers, host>>

NextExport ==
    \/ Next
    \/ \E i \in 0 .. MaxBlocks - 1 : ToDict(i)
    \/ \E field \in {"nonce", "data"} : RebindRecordEntry(field)
    \/ MutateRecordData(1, 9)

SpecExport == Init /\ [][NextExport]_vars

---------------------------------------------------------------------------
(* add_block with mapping payloads that differ in the insertion order of   *)
(* their keys, at the top level and inside a nested mapping                *)

Inner12 == <<<<1, 1>>, <<2, 2>>>>
Inner21 == <<<<2, 2>>, <<1, 1>>>>

MappingPayloads ==
    {Map(Inner12), Map(Inner21), Map(<<<<1, 2>>, <<2, 1>>>>)}
        \cup {Map(<<<<1, 1>>, <<3, 0, inner>>>>) : inner \in {Inner12, Inner21}}
        \cup {Map(<<<<3, 0, inner>>, <<1, 1>>>>) : inner \in {Inner12, Inner21}}

NextCanonical ==
    \/ \E data \in MappingPayloads : AddBlockBegin(data, 0)
    \/ MineStep
    \/ AddBlockEnd
    \/ Validate

SpecCanonical == Init /\ [][NextCanonical]_vars

---------------------------------------------------------------------------
(* Properties *)

Positions == 1 .. Len(chain)
Appended == 2 .. Len(chain)

Target == Zeros(difficulty)

(* The three checks of is_chain_valid, stated for the block at chain[i] *)
HashMatches(i) == chain[i].hash = calculate_hash(chain[i])
LinkMatches(i) == chain[i].previous_hash = chain[i - 1].hash
MeetsTarget(i) == StartsWith(chain[i].hash, Target)

(* C1: after creation and any sequence of add_block calls, every block of  *)
(* the chain, genesis included, has hash = calculate_hash() under its own  *)
(* hash_algorithm.                                                         *)
HashConsistency == \A i \in Positions : HashMatches(i)

HashConsistencyWitness ==
    /\ Len(chain) = 3
    /\ chain[2].nonce > 0
    /\ chain[3].nonce > 0
    /\ HashMatches(2) /\ HashMatches(3)

(* C2: after creation and any sequence of add_block calls, every block at  *)
(* a position i >= 1 has previous_hash equal to the stored hash of the     *)
(* block before it.                                                        *)
Linkage == \A i \in Appended : LinkMatches(i)

LinkageWitness ==
    /\ Len(chain) = 3
    /\ chain[3].previous_hash = chain[2].hash
    /\ chain[2].hash # chain[1].hash

(* C3: every non-genesis block's stored hash starts with difficulty '0'    *)
(* characters; the genesis block is exempt.                                *)
ProofOfWork == \A i \in Appended : MeetsTarget(i)

ProofOfWorkWitness ==
    /\ difficulty = 1
    /\ Len(chain) = 3
    /\ chain[2].hash[1] = 0 /\ chain[3].hash[1] = 0
    /\ chain[2].nonce > 0
    /\ chain[1].hash[1] # 0

(* C4: creation yields a chain of length 1 whose block has index 0,        *)
(* previous_hash "0" and nonce 0, and the block at position 0 stays that   *)
(* block under add_block.                                                  *)
IsGenesis(b) == b.index = 0 /\ b.previous_hash = <<0>> /\ b.nonce = 0

GenesisInvariant ==
    /\ Len(chain) = 1
    /\ [](Len(chain) >= 1 /\ IsGenesis(chain[1]))
    /\ [][chain'[1] = chain[1]]_vars

GenesisWitness ==
    /\ Len(chain) = 3
    /\ IsGenesis(chain[1])
    /\ ~IsGenesis(chain[2])

(* C5: is_chain_valid() returns True on every chain produced by creation   *)
(* followed by add_block calls.                                            *)
ValidationSound ==
    /\ is_chain_valid(chain, difficulty).ok
    /\ ret.kind = "is_chain_valid" => ret = Verdict(TRUE, 0, 0)

ValidationSoundWitness ==
    /\ Len(chain) = 3
    /\ difficulty = 1
    /\ ret.kind = "is_chain_valid"
    /\ ret.ok

(* C6: on a chain built by add_block, giving a non-genesis block another   *)
(* payload while its hash stays makes is_chain_valid() return False, and   *)
(* the block reported is the mutated one, failing check 1.                 *)
(* Two payloads are the same value when they are equal up to the          *)
(* insertion order of a mapping's keys (Python's == on dicts).             *)
ItemSet(d) == {d.items[i] : i \in 1 .. Len(d.items)}
PyEq(d1, d2) == d1.kind = d2.kind /\ d1.str = d2.str /\ ItemSet(d1) = ItemSet(d2)

PayloadMutated(i) ==
    /\ ~PyEq(chain'[i].data, chain[i].data)
    /\ chain' = [chain EXCEPT ![i].data = chain'[i].data]

TamperDetection ==
    [][\A i \in Appended :
          tampers = 0 /\ PayloadMutated(i)
              => is_chain_valid(chain', difficulty) = Verdict(FALSE, i - 1, 1)]_vars

TamperDetectionWitness ==
    /\ tampers = 1
    /\ Len(chain) = 3
    /\ chain[3].data = HackedData
    /\ ret = Verdict(FALSE, 2, 1)

(* C7: on a chain built by add_block, writing a different value over the   *)
(* stored hash of a block makes is_chain_valid() return False.             *)
HashOverwritten(i) ==
    /\ chain'[i].hash # chain[i].hash
    /\ chain' = [chain EXCEPT ![i].hash = chain'[i].hash]

HashSubstitutionDetection ==
    [][\A i \in Positions :
          tampers = 0 /\ Len(chain) >= 2 /\ HashOverwritten(i)
              => ~is_chain_valid(chain', difficulty).ok]_vars

HashSubstitutionWitness ==
    /\ tampers = 1
    /\ Len(chain) = 3
    /\ chain[2].hash = <<16, 16>>
    /\ chain[2].data \in Payloads
    /\ ret.kind = "is_chain_valid"
    /\ ~ret.ok

(* C8: in any chain state, is_chain_valid() returns True exactly when      *)
(* every block at positions 1 .. n-1 passes all three checks; the genesis  *)
(* block is checked for none of them.                                      *)
AllChecksPass == \A i \in Appended : HashMatches(i) /\ LinkMatches(i) /\ MeetsTarget(i)

ValidationExact ==
    /\ is_chain_valid(chain, difficulty).ok <=> AllChecksPass
    /\ ret.kind = "is_chain_valid" => (ret.ok <=> AllChecksPass)

ValidationExactWitness ==
    /\ Len(chain) = 3
    /\ difficulty = 1
    /\ ret = Verdict(TRUE, 0, 0)
    /\ ~HashMatches(1)
    /\ ~MeetsTarget(1)

(* C9: add_block(p) on a chain of length n leaves a chain of length n + 1  *)
(* and returns the block now last, whose data is p, index n, previous_hash *)
(* the hash that was latest before the call, and algorithm the chain's.    *)
AddBlockReturns == pc = "mining" /\ pc' = "idle"

AppendPostcondition ==
    [][AddBlockReturns =>
          /\ Len(chain') = Len(chain) + 1
          /\ SubSeq(chain', 1, Len(chain)) = chain
          /\ ret'.kind = "add_block"
          /\ ret'.block = chain'[Len(chain')]
          /\ ret'.block.data = req
          /\ ret'.block.index = Len(chain)
          /\ ret'.block.previous_hash = chain[Len(chain)].hash
          /\ ret'.block.hash_algorithm = hash_algorithm]_vars

AppendPostconditionWitness ==
    /\ ret.kind = "add_block"
    /\ Len(chain) = 3
    /\ ret.block = chain[3]
    /\ ret.block.index = 2
    /\ ret.block.previous_hash = chain[2].hash

(* C10: the nonce of a block appended by add_block is the least n >= 0     *)
(* whose digest over (index, timestamp, data, previous_hash, n) has the    *)
(* difficulty prefix, the nonces having been tried in increasing order     *)
(* from 0.                                                                 *)
HashAt(b, n) == calculate_hash([b EXCEPT !.nonce = n])

LeastNonce(b) ==
    /\ StartsWith(HashAt(b, b.nonce), Target)
    /\ \A n \in 0 .. b.nonce - 1 : ~StartsWith(HashAt(b, n), Target)

MinimalNonce ==
    /\ \A i \in Appended : LeastNonce(chain[i])
    /\ pc = "mining" =>
          \A n \in 0 .. cand.nonce - 1 : ~StartsWith(HashAt(cand, n), Target)

MinimalNonceWitness ==
    /\ Len(chain) = 3
    /\ difficulty = 1
    /\ chain[2].nonce >= 2
    /\ chain[3].nonce >= 2
    /\ chain[2].nonce # chain[3].nonce

(* C11: with difficulty 0 the target prefix is empty, so add_block appends *)
(* without a nonce search: the candidate and every appended block have     *)
(* nonce 0 and the digest computed at construction.                        *)
NoSearchAtZero ==
    difficulty = 0 =>
        /\ \A i \in Appended :
              /\ chain[i].nonce = 0
              /\ chain[i].hash = HashAt(chain[i], 0)
        /\ pc = "mining" => cand.nonce = 0 /\ cand.hash = HashAt(cand, 0)

NoSearchAtZeroWitness ==
    /\ difficulty = 0
    /\ Len(chain) = 3
    /\ chain[2].nonce = 0
    /\ chain[3].nonce = 0
    /\ chain[3].hash[1] # 0
    /\ ret.kind = "add_block"

(* C12: no chain exists with a negative difficulty: construction with      *)
(* difficulty < 0 fails and yields no chain.                               *)
NegativeDifficultyRejected == difficulty < 0 => Len(chain) = 0

AsSha256(b) == [b EXCEPT !.hash_algorithm = "sha256"]

FailedAppendAtomic ==
    [][ret'.kind = "error" =>
          /\ chain' = chain
          /\ Len(chain') = Len(chain)
          /\ pc = "idle" /\ pc' = "idle"
          /\ cand = None /\ cand' = None
          /\ difficulty' = difficulty /\ hash_algorithm' = hash_algorithm]_vars

FailedAppendAtomicWitness ==
    /\ ret = Error("TypeError")
    /\ Len(chain) = 2
    /\ pc = "idle"
    /\ cand = None
    /\ is_chain_valid(chain, difficulty).ok

(* C15: is_chain_valid is a pure query on any chain, valid or not: the     *)
(* call changes no block, nor the length, difficulty or algorithm; it      *)
(* returns a boolean; and a second call right after returns the same.      *)
ValidationPure ==
    [][ret'.kind = "is_chain_valid" =>
          /\ chain' = chain
          /\ difficulty' = difficulty
          /\ hash_algorithm' = hash_algorithm
          /\ ret'.ok \in BOOLEAN
          /\ is_chain_valid(chain', difficulty') = ret']_vars

ValidationPureWitness ==
    /\ ret.kind = "is_chain_valid"
    /\ ~ret.ok
    /\ Len(chain) = 3
    /\ ~HashMatches(2)
    /\ ~LinkMatches(3)

(* C16: a chain exported as its to_dict records with its difficulty and    *)
(* hash_algorithm, and rebuilt as load_blockchain does, has the same       *)
(* length, difficulty, algorithm, genesis hash and latest hash, and at     *)
(* every position the same index, timestamp, data, previous_hash, nonce    *)
(* and hash.                                                               *)
SameBlock(a, b) ==
    /\ a.index = b.index
    /\ a.timestamp = b.timestamp
    /\ a.data = b.data
    /\ a.previous_hash = b.previous_hash
    /\ a.nonce = b.nonce
    /\ a.hash = b.hash

RoundTrip ==
    ret.kind = "load" =>
        LET loaded == ret.blockchain IN
        /\ Len(loaded.chain) = Len(chain)
        /\ loaded.difficulty = difficulty
        /\ loaded.hash_algorithm = hash_algorithm
        /\ loaded.chain[1].hash = chain[1].hash
        /\ loaded.chain[Len(loaded.chain)].hash = chain[Len(chain)].hash
        /\ ret.chain_info = get_chain_info(chain, difficulty, hash_algorithm)
        /\ \A i \in Positions : SameBlock(loaded.chain[i], chain[i])

RoundTripWitness ==
    /\ ret.kind = "load"
    /\ Len(chain) = 3
    /\ difficulty = 1
    /\ chain[2].timestamp = 1
    /\ chain[3].data.kind = "map"
    /\ ret.blockchain.chain[3].data = chain[3].data
    /\ ret.blockchain.chain[2].timestamp = 1

(* C17: load_blockchain never re-mines or re-verifies: every loaded block  *)
(* keeps the nonce and the hash of its record even when that hash is not   *)
(* the digest of the block's fields (the saved form of a tampered chain    *)
(* loads), and is_chain_valid on the loaded chain returns what it returns  *)
(* on the chain that was saved.                                            *)
LoadStep == ret.kind = "save" /\ ret'.kind = "load"

LoadVerbatim ==
    [][LoadStep =>
          LET loaded == ret'.blockchain IN
          /\ Len(loaded.chain) = Len(ret.file.chain)
          /\ \A i \in 1 .. Len(loaded.chain) :
                /\ loaded.chain[i].nonce = ret.file.chain[i].nonce
                /\ loaded.chain[i].hash = ret.file.chain[i].hash
          /\ is_chain_valid(loaded.chain, loaded.difficulty).ok
                = is_chain_valid(chain, difficulty).ok]_vars

LoadVerbatimWitness ==
    /\ ret.kind = "load"
    /\ tampers = 1
    /\ Len(chain) = 3
    /\ chain[2].data = HackedData
    /\ ret.blockchain.chain[2].data = HackedData
    /\ ret.blockchain.chain[2].hash # calculate_hash(ret.blockchain.chain[2])
    /\ ~is_chain_valid(ret.blockchain.chain, ret.blockchain.difficulty).ok

(* C18: get_chain_info reports the number of blocks, the difficulty, the   *)
(* algorithm, the hash of chain[0] and the hash of the last block as they  *)
(* are at the call, and changes nothing.                                   *)
ChainInfoFaithful ==
    [][ret'.kind = "chain_info" =>
          /\ ret'.length = Len(chain)
          /\ ret'.difficulty = difficulty
          /\ ret'.hash_algorithm = hash_algorithm
          /\ ret'.genesis_block_hash = chain[1].hash
          /\ ret'.latest_block_hash = chain[Len(chain)].hash
          /\ UNCHANGED <<chain, difficulty, hash_algorithm, pc, cand, req, tampers>>]_vars

ChainInfoWitness ==
    /\ ret.kind = "chain_info"
    /\ ret.length = 3
    /\ Len(chain) = 3
    /\ ret.latest_block_hash = chain[3].hash
    /\ ret.latest_block_hash # ret.genesis_block_hash
    /\ tampers = 1

(* C19: the chain's difficulty and hash_algorithm never change under       *)
(* add_block, is_chain_valid, get_chain_info or tampering, and every block *)
(* made by genesis construction or by add_block, the one being mined       *)
(* included, carries the chain's hash_algorithm.                           *)
ConfigurationFixed ==
    /\ [](\A i \in Positions : chain[i].hash_algorithm = hash_algorithm)
    /\ [](pc = "mining" => cand.hash_algorithm = hash_algorithm)
    /\ [][difficulty' = difficulty /\ hash_algorithm' = hash_algorithm]_vars

ConfigurationFixedWitness ==
    /\ hash_algorithm = "sha3-512"
    /\ difficulty = 1
    /\ Len(chain) = 3
    /\ tampers = 1
    /\ chain[3].hash_algorithm = "sha3-512"
    /\ ret.kind = "chain_info"

(* C20: add_block never removes, reorders or modifies a block already in   *)
(* the chain: across every step of a call, from the construction of the    *)
(* candidate to the append, the blocks that were in the chain are still    *)
(* its first blocks, unchanged.                                            *)
InAddBlock == pc = "mining" \/ pc' = "mining"

AppendOnly ==
    [][InAddBlock =>
          /\ Len(chain') >= Len(chain)
          /\ \A i \in Positions : chain'[i] = chain[i]]_vars

AppendOnlyWitness ==
    /\ ret.kind = "add_block"
    /\ Len(chain) = 3
    /\ tampers = 1
    /\ chain[2].data = HackedData
    /\ chain[3].index = 2
    /\ chain[3].nonce > 0

(* C21: a block enters the chain only after mining has found a satisfying  *)
(* nonce: the candidate is built with nonce 0 outside the chain, the chain *)
(* is the same in every state while add_block is mining (so a mining that  *)
(* stops part-way leaves no block behind), and the step that appends the   *)
(* block appends the mined candidate.                                      *)
LifecycleOrdering ==
    /\ [](pc = "mining" => \A i \in Positions : chain[i] # cand)
    /\ [][/\ pc = "idle" /\ pc' = "mining" => chain' = chain /\ cand'.nonce = 0
          /\ pc = "mining" /\ pc' = "mining" => chain' = chain
          /\ pc = "mining" /\ pc' = "idle" =>
                /\ StartsWith(cand.hash, Target)
                /\ cand.hash = calculate_hash(cand)
                /\ chain' = Append(chain, cand)]_vars

LifecycleWitness ==
    /\ pc = "mining"
    /\ difficulty = 1
    /\ Len(chain) = 2
    /\ cand.nonce >= 2
    /\ ~StartsWith(cand.hash, Target)
    /\ cand.index = 2

(* C22: for every session id at most one /add-block request is inside     *)
(* add_block at any time.                                                  *)
InAddBlockOn(t, sid) ==
    IF workers[t] = None THEN FALSE ELSE workers[t].session_id = sid

SingleWriter ==
    \A sid \in SessionIds : \A t1, t2 \in Threads :
        InAddBlockOn(t1, sid) /\ InAddBlockOn(t2, sid) => t1 = t2

(* C23: a step of a route addressed to one session id changes the entry of *)
(* no other session id: whenever the entry of a session id differs after   *)
(* a step, that id is the one the request named (add-block, tamper, reset) *)
(* or the one issued to the new chain (create, load); validation and save  *)
(* change no entry at all.                                                 *)
Addressed(sid) == ret'.kind # "none" /\ ret'.session_id = sid

CrossChainIsolation ==
    [][/\ \A sid \in SessionIds :
             blockchains'[sid] # blockchains[sid] => Addressed(sid)
       /\ ret'.kind \in {"validate_chain", "save_blockchain"} =>
             blockchains' = blockchains]_vars

CrossChainIsolationWitness ==
    /\ blockchains[1] # None
    /\ blockchains[2] # None
    /\ ret.kind = "tamper_block"
    /\ ret.session_id = 2
    /\ Len(blockchains[1].chain) = 2
    /\ Len(blockchains[2].chain) = 2
    /\ blockchains[2].chain[2].data = HackedData
    /\ blockchains[1].chain[2].data = Str(1)
    /\ history # None

(* C24: writing to the record returned by to_dict, or to a mutable payload *)
(* reached through its data entry, changes no field of any block and not   *)
(* what calculate_hash returns for it.                                     *)
RecordWritten == ret.kind = "to_dict" /\ ret'.kind = "to_dict" /\ ret' # ret

ExportNoAliasing ==
    [][RecordWritten =>
          /\ chain' = chain
          /\ \A i \in Positions :
                calculate_hash(chain'[i]) = calculate_hash(chain[i])]_vars

(* C25: mining terminates.  Whenever add_block is mining, the loop of      *)
(* mine_block eventually exits and add_block appends the block and         *)
(* returns it; while the search is on, a nonce with the difficulty prefix  *)
(* is still ahead, and the call has no outcome other than the block.       *)
SomeNonceAhead(b) ==
    \E n \in b.nonce .. Modulus : StartsWith(HashAt(b, n), Target)

MiningTerminates ==
    /\ [](pc = "mining" => SomeNonceAhead(cand))
    /\ [][pc = "mining" => ret'.kind \in {"none", "add_block"}]_vars
    /\ pc = "mining" ~> (pc = "idle" /\ ret.kind = "add_block")

MiningTerminatesWitness ==
    /\ ret.kind = "add_block"
    /\ difficulty = 1
    /\ Len(chain) = 3
    /\ ret.block.nonce >= 4
    /\ ret.block = chain[3]

(* C26: an add-block that is mining can be cancelled between two nonce     *)
(* attempts: in every state in which the call is mining, the application   *)
(* has a step that ends the call without appending a block and reports the *)
(* cancellation as its outcome.                                            *)
CancelStep ==
    /\ NextApp
    /\ pc' = "idle"
    /\ chain' = chain
    /\ ret'.kind = "cancelled"

CancellationSupported == pc = "mining" => ENABLED CancelStep

TamperAlwaysDetected == ret.kind = "tamper_block" => ret.tampered_detected

(* C29: calculate_hash is a function of index, timestamp, data,            *)
(* previous_hash, nonce and hash_algorithm alone: whatever the stored hash *)
(* field holds, and whether or not the hash was computed before (at        *)
(* construction, by a validation), it returns the digest that a block      *)
(* newly built from the same six values gets.                              *)
Rebuilt(b) ==
    Block(b.index, b.timestamp, b.data, b.previous_hash, b.nonce, b.hash_algorithm)

HashDeterminism ==
    \A i \in Positions :
        /\ calculate_hash(chain[i]) = Rebuilt(chain[i]).hash
        /\ \A h \in StoredHashes(chain[i]) \cup {<<>>} :
              calculate_hash([chain[i] EXCEPT !.hash = h]) = calculate_hash(chain[i])

HashDeterminismWitness ==
    /\ Len(chain) = 3
    /\ ret.kind = "is_chain_valid"
    /\ chain[2].hash = <<16, 16>>
    /\ chain[3].hash = Zeros(DigestLen)
    /\ calculate_hash(chain[2]) # chain[2].hash
    /\ calculate_hash(chain[3]) = Rebuilt(chain[3]).hash

(* C30: two blocks equal in index, timestamp, previous_hash, nonce and     *)
(* algorithm, whose payloads are mappings with the same keys and values in *)
(* different insertion orders, at the top level or inside a nested         *)
(* mapping, have the same hash.                                            *)
RECURSIVE SameMapping(_, _)
SameMapping(items1, items2) ==
    /\ Len(items1) = Len(items2)
    /\ \A i \in 1 .. Len(items1) : \E j \in 1 .. Len(items2) :
          /\ items1[i][1] = items2[j][1]
          /\ Len(items1[i]) = Len(items2[j])
          /\ IF Len(items1[i]) = 2 THEN items1[i][2] = items2[j][2]
             ELSE SameMapping(items1[i][3], items2[j][3])

Reordered(b) == {d \in MappingPayloads : SameMapping(d.items, b.data.items)}

WithData(b, d) ==
    Block(b.index, b.timestamp, d, b.previous_hash, b.nonce, b.hash_algorithm)

CanonicalEquivalence ==
    /\ \A i \in Appended : \A d \in Reordered(chain[i]) :
          WithData(chain[i], d).hash = chain[i].hash
    /\ pc = "mining" =>
          \A d \in Reordered(cand) : WithData(cand, d).hash = cand.hash

CanonicalEquivalenceWitness ==
    /\ Len(chain) = 3
    /\ difficulty = 1
    /\ chain[2].data = Map(<<<<1, 1>>, <<3, 0, Inner12>>>>)
    /\ chain[3].data = Map(Inner21)
    /\ Map(<<<<3, 0, Inner21>>, <<1, 1>>>>) \in Reordered(chain[2])
    /\ Map(<<<<1, 2>>, <<2, 1>>>>) \notin Reordered(chain[3])
    /\ WithData(chain[3], Map(<<<<1, 2>>, <<2, 1>>>>)).hash # chain[3].hash
    /\ Cardinality(Reordered(chain[2])) = 4

(* C31: validation reports the first failure in a fixed order.  On a chain *)
(* with a failing block, the verdict names the lowest position that fails  *)
(* any of the three checks and, for it, the first failing check in the     *)
(* order hash, previous hash, difficulty; the blocks after it play no part *)
(* in the verdict, which is the same on every prefix of the chain that     *)
(* holds the reported block.                                               *)
FailsAt(i) == ~HashMatches(i) \/ ~LinkMatches(i) \/ ~MeetsTarget(i)

FirstFailingCheck(i) ==
    IF ~HashMatches(i) THEN 1 ELSE IF ~LinkMatches(i) THEN 2 ELSE 3

FirstFailureOrder ==
    ret.kind = "is_chain_valid" /\ ~AllChecksPass =>
        /\ ~ret.ok
        /\ ret.index + 1 \in Appended
        /\ FailsAt(ret.index + 1)
        /\ \A j \in 2 .. ret.index : ~FailsAt(j)
        /\ ret.check = FirstFailingCheck(ret.index + 1)
        /\ \A n \in ret.index + 1 .. Len(chain) :
              is_chain_valid(SubSeq(chain, 1, n), difficulty) = ret

FirstFailureOrderWitness ==
    /\ Len(chain) = 3
    /\ ret = Verdict(FALSE, 1, 2)
    /\ HashMatches(2) /\ ~LinkMatches(2) /\ ~MeetsTarget(2)
    /\ ~HashMatches(3)

(* C32: after creation and any sequence of add_block calls run one at a    *)
(* time, the block at position i has index i, the block being mined has    *)
(* the index of the position it will take, and no two blocks of the chain  *)
(* share an index.                                                         *)
IndexInvariant ==
    /\ \A i \in Positions : chain[i].index = i - 1
    /\ \A i, j \in Positions : chain[i].index = chain[j].index => i = j
    /\ pc = "mining" => cand.index = Len(chain)

IndexInvariantWitness ==
    /\ Len(chain) = 3
    /\ chain[1].index = 0 /\ chain[2].index = 1 /\ chain[3].index = 2
    /\ chain[2].data = chain[3].data
    /\ chain[2].timestamp = chain[3].timestamp

(* C33: mine_block changes only the candidate's nonce and hash.  Across    *)
(* every pass of the loop the index, timestamp, data, previous_hash and    *)
(* hash_algorithm of the candidate stay, the nonce does not decrease, and  *)
(* the stored hash is the digest for the current nonce; the block appended *)
(* when the loop exits is the candidate as the loop left it.               *)
LoopPass == pc = "mining" /\ pc' = "mining" /\ cand' # cand

MiningFrame ==
    /\ [](pc = "mining" => cand.hash = calculate_hash(cand) /\ cand.data = req)
    /\ [][/\ LoopPass =>
                /\ cand'.index = cand.index
                /\ cand'.timestamp = cand.timestamp
                /\ cand'.data = cand.data
                /\ cand'.previous_hash = cand.previous_hash
                /\ cand'.hash_algorithm = cand.hash_algorithm
                /\ cand'.nonce >= cand.nonce
                /\ cand'.hash = HashAt(cand, cand'.nonce)
          /\ AddBlockReturns => chain'[Len(chain')] = cand]_vars

MiningFrameWitness ==
    /\ pc = "mining"
    /\ Len(chain) = 2
    /\ cand.nonce >= 3
    /\ cand.timestamp = 0
    /\ cand.data.kind = "map"
    /\ cand.hash = HashAt(cand, cand.nonce)
    /\ cand.hash # HashAt(cand, 0)

(* C34: /tamper-block overwrites only the data field of the addressed      *)
(* block.  Across the request, that block's hash, nonce, previous_hash,    *)
(* index and timestamp, every field of every other block of the chain, the *)
(* chain's length, difficulty and algorithm, and every other chain stay as *)
(* they were.                                                              *)
TamperStep == tampers' = tampers + 1

SameButData(a, b) ==
    /\ a.hash = b.hash
    /\ a.nonce = b.nonce
    /\ a.previous_hash = b.previous_hash
    /\ a.index = b.index
    /\ a.timestamp = b.timestamp
    /\ a.hash_algorithm = b.hash_algorithm

TamperFrame ==
    [][TamperStep =>
          LET sid == ret'.session_id
              before == blockchains[sid]
              after == blockchains'[sid]
          IN  /\ ret'.kind = "tamper_block"
              /\ \A other \in SessionIds \ {sid} :
                    blockchains'[other] = blockchains[other]
              /\ after.difficulty = before.difficulty
              /\ after.hash_algorithm = before.hash_algorithm
              /\ Len(after.chain) = Len(before.chain)
              /\ \E i \in 1 .. Len(before.chain) :
                    /\ after.chain[i].data = HackedData
                    /\ SameButData(after.chain[i], before.chain[i])
                    /\ \A j \in 1 .. Len(before.chain) :
                          j # i => after.chain[j] = before.chain[j]]_vars

TamperFrameWitness ==
    /\ ret.kind = "tamper_block"
    /\ ret.session_id = 1
    /\ ret.tampered_detected
    /\ blockchains[1] # None
    /\ Len(blockchains[1].chain) = 3
    /\ blockchains[1].chain[2].data = HackedData
    /\ blockchains[1].chain[2].nonce > 0
    /\ blockchains[1].chain[2].hash[1] = 0
    /\ blockchains[1].chain[3].data = Str(1)

(* C35: whatever the interleaving of concurrent /add-block requests on one *)
(* session's chain, with no tampering, once all requests have finished the *)
(* block at position i has index i, every block is linked to the one       *)
(* before it, and is_chain_valid returns True.                             *)
Quiescent(sid) == \A t \in Threads : ~InAddBlockOn(t, sid)

WellFormed(blocks, diff) ==
    /\ \A i \in 1 .. Len(blocks) : blocks[i].index = i - 1
    /\ \A i \in 2 .. Len(blocks) : blocks[i].previous_hash = blocks[i - 1].hash
    /\ is_chain_valid(blocks, diff).ok

ConcurrentAppendsValid ==
    \A sid \in SessionIds :
        tampers = 0 /\ blockchains[sid] # None /\ Quiescent(sid) =>
            WellFormed(blockchains[sid].chain, blockchains[sid].difficulty)

(* C36: invalidity is permanent under append.  While a non-genesis block   *)
(* holds the payload the tamper operation wrote, is_chain_valid returns    *)
(* False, however many blocks add_block has appended since, and the block  *)
(* it reports is the lowest-position tampered block, failing check 1.      *)
TamperedPositions == {i \in Appended : chain[i].data = HackedData}

LowestTampered ==
    CHOOSE i \in TamperedPositions : \A j \in TamperedPositions : i <= j

InvalidityPermanent ==
    TamperedPositions # {} =>
        /\ is_chain_valid(chain, difficulty) = Verdict(FALSE, LowestTampered - 1, 1)
        /\ ret.kind = "is_chain_valid" => ret = Verdict(FALSE, LowestTampered - 1, 1)

InvalidityPermanentWitness ==
    /\ tampers = 1
    /\ Len(chain) = 3
    /\ TamperedPositions = {2}
    /\ ret.kind = "add_block"
    /\ ret.block = chain[3]
    /\ HashMatches(3) /\ LinkMatches(3) /\ MeetsTarget(3)
    /\ is_chain_valid(chain, difficulty) = Verdict(FALSE, 1, 1)

(* C37: a /tamper-block request whose block_index is no position           *)
(* 0 .. len-1 of the session's chain, too large or negative, is answered   *)
(* with the error "Block index out of range" and changes no block.         *)
TamperBlockRequest(sid, block_index) ==
    \/ HostTamperBlock(sid, block_index)
    \/ HostTamperBlockRejected(sid, block_index)
    \/ HostTamperBlockIndexError(sid, block_index)

OutOfRange(sid, block_index) ==
    IF blockchains[sid] = None THEN FALSE
    ELSE block_index \notin 0 .. Len(blockchains[sid].chain) - 1

TamperIndexChecked ==
    [][\A sid \in SessionIds, block_index \in RequestIndexes :
          OutOfRange(sid, block_index) /\ TamperBlockRequest(sid, block_index)
              => ret' = RangeError(sid) /\ blockchains' = blockchains]_vars

(* C38: demonstrate_tampering restores the state.  After it returns every  *)
(* block has the data and the hash it had before the call, so a chain that *)
(* validated True before validates True afterwards; on a chain of fewer    *)
(* than 3 blocks it changes nothing and runs no validation, on a longer    *)
(* one it validates twice.                                                 *)
DemoStep == ret'.kind = "demonstrate_tampering"

DemoRestores ==
    [][DemoStep =>
          /\ Len(chain') = Len(chain)
          /\ \A i \in Positions :
                /\ chain'[i].data = chain[i].data
                /\ chain'[i].hash = chain[i].hash
          /\ is_chain_valid(chain, difficulty).ok
                => is_chain_valid(chain', difficulty).ok
          /\ Len(chain) < 3 => chain' = chain /\ ret'.validations = 0
          /\ Len(chain) >= 3 => ret'.validations = 2]_vars

DemoRestoresWitness ==
    /\ ret.kind = "demonstrate_tampering"
    /\ ret.results = <<TRUE, FALSE>>
    /\ Len(chain) = 3
    /\ chain[2].data \in Payloads
    /\ HashMatches(2)
    /\ is_chain_valid(chain, difficulty).ok

(* C39: a failed load is atomic.  Whenever /load-blockchain answers with a *)
(* failure (missing file, malformed record, or a file whose list of blocks *)
(* is empty), the dictionary of chains is as it was before the request,    *)
(* and no session id maps to a chain with zero blocks.                     *)
LoadFailed == ret'.kind = "error"

FailedLoadAtomic ==
    [][LoadFailed =>
          /\ blockchains' = blockchains
          /\ \A sid \in SessionIds :
                IF blockchains'[sid] = None THEN TRUE
                ELSE Len(blockchains'[sid].chain) > 0]_vars

====
